---- MODULE Spec2Model ----
(***************************************************************************)
(* Model of app/index.tsx: the recording screen (App component).           *)
(*                                                                         *)
(* React state (useState) and refs (useRef) are the variables.  Every      *)
(* function of the component is asynchronous code on one event loop: an    *)
(* action is one task of that loop, i.e. the code between two awaits.      *)
(* A function created during a render closes over the state of that        *)
(* render; the values a call captured are kept with the call.              *)
(* The audio backend (expo-av) is the environment: every awaited call      *)
(* either resolves or rejects.  Timers fire in any order while scheduled.  *)
(* After the cleanup of the screen the pending calls and timers go on; the *)
(* state setters are kept as assignments (the state is no longer shown).   *)
(***************************************************************************)
EXTENDS Integers, Sequences, FiniteSets, TLC

\* ---- program constants (index.tsx:8-10) ----
RECORDING_TIME_LIMIT == 60000
REFRESH_INTERVAL == 100
MAX_DATA_POINTS == 600
\* delay of the elapsed-time interval (index.tsx:59)
ELAPSED_INTERVAL == 1000

\* ---- bounds of the model ----
\* calls of startRecording over a run (each creates at most one handle)
MaxStarts == 2
\* calls of startRecording in progress at once
MaxInFlight == 2
\* calls of stopRecording that reach stopAndUnloadAsync over a run
MaxStops == 2
\* getStatusAsync calls in flight at once
MaxQueries == 1
\* samples appended over a run of the session controller
MaxSamples == 1
\* firings of one elapsed-time interval
MaxElapsedTicks == 1
\* queries of one session in flight together (SpecTicks)
MaxOverlap == 2
\* sampling ticks of one session (SpecTicks)
MaxTickSamples == 3
\* appends of one run of the window pipeline
MaxAppends == 603
\* firings of one elapsed-time interval when timers fire at their due times
MaxTimedTicks == 61
\* the normalizer's inputs: how far below -60 dB and above -10 dB they reach
MaxDbBelow == 100
MaxDbAbove == 30

VARIABLES
  recording,     \* useState(): 0 is undefined, k > 0 the Recording made by call k
  isRecording,   \* useState(false)
  pitch,         \* useState(null): <<>> is null, <<v>> the last normalized value
  pitchData,     \* useState([]): the sample window
  elapsedTime,   \* useState(0)
  intervalRef,   \* useRef(null): 0 is null, k the sampling interval of call k
  timerRef,      \* useRef(null): NullTimer or {timeout, interval}
  mounted,       \* the component is mounted (cleanup of useEffect not yet run)
  timers,        \* timers scheduled on the event loop and not cleared
  calls,         \* startRecording calls: position and captured values
  nStarts,       \* number of startRecording calls made
  handles,       \* backend state of each Audio.Recording object
  stops,         \* stopRecording calls that reached the await of line 80
  queries,       \* getStatusAsync calls in flight (line 46), in call order
  ticks,         \* firings of each elapsed-time interval
  unloads,       \* stopAndUnloadAsync calls made on each handle
  appended,      \* samples appended since the window was last cleared
  lastStatus,    \* window pipeline: the status of its last tick (<<>>: none)
  feed,          \* pipelines: the metering tape read by the ticks, or the metering
  origins,       \* session controller: the call whose tick appended each sample
  session        \* session controller: the call that cleared the window last

reactState == <<recording, isRecording, pitch, pitchData, elapsedTime>>
refs == <<intervalRef, timerRef>>
vars == <<recording, isRecording, pitch, pitchData, elapsedTime, intervalRef,
          timerRef, mounted, timers, calls, nStarts, handles, stops, queries,
          ticks, unloads, appended, lastStatus, feed, origins, session>>

CallIds == 1..MaxStarts
\* status.metering is <<>> when it is not a number, <<db>> when it is one
NoMetering == <<>>

Min(a, b) == IF a <= b THEN a ELSE b
Max(a, b) == IF a >= b THEN a ELSE b

\* ---- Math.pow(x, 0.5) on integers: the floor of the square root ----
RECURSIVE SqrtSearch(_, _, _)
SqrtSearch(n, lo, hi) ==
  IF lo >= hi THEN lo
  ELSE LET mid == (lo + hi + 1) \div 2
       IN IF mid * mid <= n THEN SqrtSearch(n, mid, hi)
          ELSE SqrtSearch(n, lo, mid - 1)

ISqrt(n) == SqrtSearch(n, 0, 46340)

\* Values on the 0..100 scale are kept in hundredths (70.71 is 7071).
Hundredths == 100

\* the normalizer without its two clamps
normalizePitch_noclamp(metering) ==
  LET minDb == -60
      maxDb == -10
      linear == ((metering - minDb) * 100 * Hundredths) \div (maxDb - minDb)
  IN ISqrt(linear * 100 * Hundredths)

\* the normalizer without the square-root curve of line 106
normalizePitch_linear(metering) ==
  LET minDb == -60
      maxDb == -10
      clampedMetering == Max(minDb, Min(maxDb, metering))
      linear == ((clampedMetering - minDb) * 100 * Hundredths) \div (maxDb - minDb)
  IN Max(0, Min(100 * Hundredths, linear))

\* index.tsx:101-108.  metering is a whole number of dB.
normalizePitch(metering) ==
  LET minDb == -60
      maxDb == -10
      clampedMetering == Max(minDb, Min(maxDb, metering))
      \* ((clampedMetering - minDb) / (maxDb - minDb)) * 100, in hundredths
      linear == ((clampedMetering - minDb) * 100 * Hundredths) \div (maxDb - minDb)
      \* Math.pow(normalizedValue / 100, 0.5) * 100, in hundredths:
      \* sqrt(linear/(100*H)) * 100 * H = sqrt(linear * 100 * H)
      normalizedValue == ISqrt(linear * 100 * Hundredths)
  IN Max(0, Min(100 * Hundredths, normalizedValue))

\* the updater without its length test: the window grows without limit
updatePitchData_nocap(currentData, newPitch) == Append(currentData, newPitch)

\* the updater with slice(0, MAX_DATA_POINTS): the newest sample is dropped
updatePitchData_head(currentData, newPitch) ==
  LET updatedData == Append(currentData, newPitch)
  IN IF Len(updatedData) > MAX_DATA_POINTS
     THEN SubSeq(updatedData, 1, MAX_DATA_POINTS)
     ELSE updatedData

\* index.tsx:110-118: the updater passed to setPitchData
updatePitchData(currentData, newPitch) ==
  LET updatedData == Append(currentData, newPitch)
  IN IF Len(updatedData) > MAX_DATA_POINTS
     THEN SubSeq(updatedData, Len(updatedData) - MAX_DATA_POINTS + 1, Len(updatedData))
     ELSE updatedData

\* A status object of getStatusAsync
Status(rec, met) == [isRecording |-> rec, metering |-> met]

\* the update without the test of status.isRecording
onRecordingStatusUpdate_nocheck(status) ==
  IF status.metering # NoMetering
  THEN <<normalizePitch(status.metering[1])>>
  ELSE <<>>

\* the update with a placeholder 0 for a metering that is not a number
onRecordingStatusUpdate_placeholder(status) ==
  IF status.isRecording
  THEN IF status.metering # NoMetering
       THEN <<normalizePitch(status.metering[1])>>
       ELSE <<0>>
  ELSE <<>>

\* index.tsx:90-99: the values the update passes to setPitch and
\* updatePitchData, in order (none when the tick is ignored)
onRecordingStatusUpdate(status) ==
  IF status.isRecording
  THEN IF status.metering # NoMetering
       THEN LET normalizedPitch == normalizePitch(status.metering[1])
            IN <<normalizedPitch>>
       ELSE <<>>
  ELSE <<>>

\* ---- timers ----
Timer(kind, owner, delay) == [kind |-> kind, owner |-> owner, delay |-> delay]
SampleTimer(k) == Timer("sample", k, REFRESH_INTERVAL)
DeadlineTimer(k) == Timer("deadline", k, RECORDING_TIME_LIMIT)
ElapsedTimer(k) == Timer("elapsed", k, ELAPSED_INTERVAL)

\* timerRef.current: null is the record of two 0 ids
NullTimer == [timeout |-> 0, interval |-> 0]

Sum(f) ==
  LET RECURSIVE S(_)
      S(D) == IF D = {} THEN 0
              ELSE LET x == CHOOSE y \in D : TRUE IN f[x] + S(D \ {x})
  IN S(DOMAIN f)

\* metering values the backend reports to the session controller
Meterings == {-35}

Init ==
  /\ recording = 0
  /\ isRecording = FALSE
  /\ pitch = <<>>
  /\ pitchData = <<>>
  /\ elapsedTime = 0
  /\ intervalRef = 0
  /\ timerRef = NullTimer
  /\ mounted = TRUE
  /\ timers = {}
  /\ calls = [k \in CallIds |-> [pc |-> "none", cap |-> 0]]
  /\ nStarts = 0
  /\ handles = [k \in CallIds |-> "none"]
  /\ stops = [k \in CallIds |-> 0]
  /\ queries = <<>>
  /\ ticks = [k \in CallIds |-> 0]
  /\ unloads = [k \in CallIds |-> 0]
  /\ appended = <<>>
  /\ lastStatus = <<>>
  /\ feed = 0
  /\ origins = <<>>
  /\ session = 0

\* ---- startRecording (index.tsx:27-65) ----

\* call k of startRecording is between its first await and its end
Awaiting(k) == calls[k].pc \in {"perm", "mode", "prepare", "startAsync"}

\* The record button while it shows the record icon (index.tsx:200): the call
\* runs up to the await of line 29.  cap is the value of `recording` in the
\* render whose startRecording (and its stopRecording) is called.
PressStart ==
  /\ mounted
  /\ ~isRecording
  /\ nStarts < MaxStarts
  /\ Cardinality({k \in CallIds : Awaiting(k)}) < MaxInFlight
  /\ nStarts' = nStarts + 1
  /\ calls' = [calls EXCEPT ![nStarts + 1] = [pc |-> "perm", cap |-> recording]]
  /\ UNCHANGED <<reactState, refs, mounted, timers, handles, stops, queries,
                 ticks, unloads, appended, lastStatus, feed, origins, session>>

\* An awaited backend call of startRecording rejects: catch (index.tsx:62-64)
StartCatch(k) ==
  /\ calls' = [calls EXCEPT ![k].pc = "failed"]
  /\ UNCHANGED <<reactState, refs, mounted, timers, nStarts, handles, stops,
                 queries, ticks, unloads, appended, lastStatus, feed, origins, session>>

\* requestPermissionsAsync resolves: line 30 up to its await
PermResolve(k) ==
  /\ calls[k].pc = "perm"
  /\ \/ /\ calls' = [calls EXCEPT ![k].pc = "mode"]
        /\ UNCHANGED <<reactState, refs, mounted, timers, nStarts, handles,
                       stops, queries, ticks, unloads, appended, lastStatus, feed, origins, session>>
     \/ StartCatch(k)

\* setAudioModeAsync resolves: lines 35-36 up to the await
ModeResolve(k) ==
  /\ calls[k].pc = "mode"
  /\ \/ /\ calls' = [calls EXCEPT ![k].pc = "prepare"]
        /\ handles' = [handles EXCEPT ![k] = "created"]
        /\ UNCHANGED <<reactState, refs, mounted, timers, nStarts, stops,
                       queries, ticks, unloads, appended, lastStatus, feed, origins, session>>
     \/ StartCatch(k)

\* lines 40-61 moved before the await of startAsync: the session is marked
\* as recording and its timers are scheduled before the capture has started
PrepareResolve_early(k) ==
  /\ calls[k].pc = "prepare"
  /\ \/ /\ calls' = [calls EXCEPT ![k].pc = "startAsync"]
        /\ handles' = [handles EXCEPT ![k] = "prepared"]
        /\ recording' = k
        /\ isRecording' = TRUE
        /\ pitchData' = <<>>
        /\ appended' = <<>>
        /\ elapsedTime' = 0
        /\ intervalRef' = k
        /\ timerRef' = [timeout |-> k, interval |-> k]
        /\ timers' = timers \cup {SampleTimer(k), DeadlineTimer(k), ElapsedTimer(k)}
        /\ origins' = <<>>
        /\ session' = k
        /\ UNCHANGED <<pitch, mounted, nStarts, stops, queries, ticks,
                       unloads, lastStatus, feed>>
     \/ StartCatch(k)

\* prepareToRecordAsync resolves: lines 37-39 up to the await
PrepareResolve(k) ==
  /\ calls[k].pc = "prepare"
  /\ \/ /\ calls' = [calls EXCEPT ![k].pc = "startAsync"]
        /\ handles' = [handles EXCEPT ![k] = "prepared"]
        /\ recording' = k
        /\ UNCHANGED <<isRecording, pitch, pitchData, elapsedTime, refs,
                       mounted, timers, nStarts, stops, queries, ticks,
                       unloads, appended, lastStatus, feed, origins, session>>
     \/ StartCatch(k)

\* startAsync resolves: lines 40-61, which run without an await
StartAsyncResolve(k) ==
  /\ calls[k].pc = "startAsync"
  /\ \/ /\ calls' = [calls EXCEPT ![k].pc = "done"]
        /\ handles' = [handles EXCEPT ![k] = "started"]
        /\ isRecording' = TRUE
        /\ pitchData' = <<>>
        /\ appended' = <<>>
        /\ elapsedTime' = 0
        /\ intervalRef' = k
        /\ timerRef' = [timeout |-> k, interval |-> k]
        /\ timers' = timers \cup {SampleTimer(k), DeadlineTimer(k), ElapsedTimer(k)}
        /\ ticks' = [ticks EXCEPT ![k] = 0]
        /\ origins' = <<>>
        /\ session' = k
        /\ UNCHANGED <<recording, pitch, mounted, nStarts, stops, queries,
                       unloads, lastStatus, feed>>
     \/ StartCatch(k)

\* ---- stopRecording (index.tsx:67-88) ----

\* lines 68-76: the timers left scheduled once the refs have been cleared
CancelTimers(ts, iref, tref) ==
  LET afterInterval == IF iref # 0 THEN ts \ {SampleTimer(iref)} ELSE ts
  IN IF tref # NullTimer
     THEN afterInterval \ {DeadlineTimer(tref.timeout), ElapsedTimer(tref.interval)}
     ELSE afterInterval

\* stopRecording called with `recording` = cap in its closure, on the timers
\* ts: lines 68-76, then either the await of line 80 or lines 86-87.
stopRecording(cap, ts) ==
  /\ timers' = CancelTimers(ts, intervalRef, timerRef)
  /\ intervalRef' = 0
  /\ timerRef' = NullTimer
  /\ IF cap # 0
     THEN /\ Sum(unloads) < MaxStops
          /\ stops' = [stops EXCEPT ![cap] = @ + 1]
          /\ unloads' = [unloads EXCEPT ![cap] = @ + 1]
          /\ UNCHANGED <<recording, isRecording>>
     ELSE /\ recording' = 0
          /\ isRecording' = FALSE
          /\ UNCHANGED <<stops, unloads>>

\* The record button while it shows pause (index.tsx:200)
PressStop ==
  /\ mounted
  /\ isRecording
  /\ stopRecording(recording, timers)
  /\ UNCHANGED <<pitch, pitchData, elapsedTime, mounted, calls, nStarts,
                 handles, queries, ticks, appended, lastStatus, feed, origins, session>>

\* The timeout of lines 51-53 fires: stopRecording of the render in which
\* call k of startRecording was made.
DeadlineFire(k) ==
  /\ DeadlineTimer(k) \in timers
  /\ stopRecording(calls[k].cap, timers \ {DeadlineTimer(k)})
  /\ UNCHANGED <<pitch, pitchData, elapsedTime, mounted, calls, nStarts,
                 handles, queries, ticks, appended, lastStatus, feed, origins, session>>

\* The cleanup of useEffect(.., []) (index.tsx:21-25): stopRecording of the
\* first render, where `recording` is undefined.
Teardown ==
  /\ mounted
  /\ mounted' = FALSE
  /\ stopRecording(0, timers)
  /\ UNCHANGED <<pitch, pitchData, elapsedTime, calls, nStarts, handles,
                 queries, ticks, appended, lastStatus, feed, origins, session>>

\* stopAndUnloadAsync on handle h resolves or rejects (caught, lines 81-83):
\* lines 86-87.
UnloadResolve(h) ==
  /\ stops[h] > 0
  /\ stops' = [stops EXCEPT ![h] = @ - 1]
  /\ \/ handles' = [handles EXCEPT ![h] = "released"]
     \/ UNCHANGED handles
  /\ recording' = 0
  /\ isRecording' = FALSE
  /\ UNCHANGED <<pitch, pitchData, elapsedTime, refs, mounted, timers, calls,
                 nStarts, queries, ticks, unloads, appended, lastStatus, feed, origins, session>>

\* ---- the two intervals ----

\* The callback of the sampling interval of call k up to its await
\* (index.tsx:44-46): newRecording is the handle of call k, getStatusAsync
\* is called and awaited.  snap is whether the capture is running as the
\* query is made; tick numbers the queries in flight in the order their
\* ticks fired.
SampleQuery(k) ==
  /\ SampleTimer(k) \in timers
  /\ queries' = Append(queries,
                  [rec |-> k, snap |-> handles[k] = "started",
                   tick |-> IF queries = <<>> THEN 1
                            ELSE queries[Len(queries)].tick + 1])
  /\ UNCHANGED <<reactState, refs, mounted, timers, calls, nStarts, handles,
                 stops, ticks, unloads, appended, lastStatus, feed, origins, session>>

\* The sampling interval of call k fires
SampleTick(k) ==
  /\ Len(queries) < MaxQueries
  /\ Len(appended) + Len(queries) < MaxSamples
  /\ SampleQuery(k)

RemoveAt(s, i) == SubSeq(s, 1, i - 1) \o SubSeq(s, i + 1, Len(s))

\* The statuses the backend can answer query q with: the capture state is
\* read when the query is made or when it is answered; metering is a number
\* or missing.
Answers(q) ==
  {Status(r, m) : r \in {q.snap, handles[q.rec] = "started"},
                  m \in {NoMetering} \cup {<<db>> : db \in Meterings}}

\* A status update on the state: setPitch(v) and updatePitchData(v) for each
\* value v the update produces; appended records the calls of updatePitchData.
RECURSIVE Fold(_, _)
Fold(data, vs) ==
  IF vs = <<>> THEN data ELSE Fold(updatePitchData(data, Head(vs)), Tail(vs))

ApplyStatus(status) ==
  LET vs == onRecordingStatusUpdate(status)
  IN /\ pitch' = IF vs = <<>> THEN pitch ELSE <<vs[Len(vs)]>>
     /\ pitchData' = Fold(pitchData, vs)
     /\ appended' = appended \o vs

\* getStatusAsync of query i resolves (index.tsx:47) or rejects (no handler:
\* the callback ends)
StatusResolve(i) ==
  /\ i \in 1..Len(queries)
  /\ queries' = RemoveAt(queries, i)
  /\ \/ \E status \in Answers(queries[i]) : ApplyStatus(status)
     \/ UNCHANGED <<pitch, pitchData, appended>>
  /\ origins' = origins \o [n \in 1..(Len(appended') - Len(appended)) |-> queries[i].rec]
  /\ UNCHANGED <<recording, isRecording, elapsedTime, refs, mounted, timers,
                 calls, nStarts, handles, stops, ticks, unloads, lastStatus,
                 feed, session>>

\* The callback of the elapsed-time interval of call k (index.tsx:57-59):
\* Date.now() - startTime is the number of firings times the delay.
ElapsedFire(k) ==
  /\ ElapsedTimer(k) \in timers
  /\ ticks' = [ticks EXCEPT ![k] = @ + 1]
  /\ elapsedTime' = (ticks[k] + 1) * ELAPSED_INTERVAL
  /\ UNCHANGED <<recording, isRecording, pitch, pitchData, refs, mounted,
                 timers, calls, nStarts, handles, stops, queries, unloads,
                 appended, lastStatus, feed, origins, session>>

\* The elapsed-time interval of call k fires
ElapsedTick(k) ==
  /\ ticks[k] < MaxElapsedTicks
  /\ ElapsedFire(k)

Next ==
  \/ PressStart
  \/ \E k \in CallIds : PermResolve(k)
  \/ \E k \in CallIds : ModeResolve(k)
  \/ \E k \in CallIds : PrepareResolve(k)
  \/ \E k \in CallIds : StartAsyncResolve(k)
  \/ PressStop
  \/ \E k \in CallIds : DeadlineFire(k)
  \/ Teardown
  \/ \E h \in CallIds : UnloadResolve(h)
  \/ \E k \in CallIds : SampleTick(k)
  \/ \E i \in 1..MaxQueries : StatusResolve(i)
  \/ \E k \in CallIds : ElapsedTick(k)

Spec == Init /\ [][Next]_vars

\* ---- one session whose status queries outlast the refresh interval

\* setInterval (index.tsx:44) fires every REFRESH_INTERVAL whether or not
\* the promise of an earlier callback has settled: the sampling interval of
\* call k fires with up to MaxOverlap queries in flight.
OverlapTick(k) ==
  /\ Len(queries) < MaxOverlap
  /\ queries # <<>> => queries[Len(queries)].tick < MaxTickSamples
  /\ Len(appended) + Len(queries) < MaxTickSamples
  /\ SampleQuery(k)

\* The record button is pressed for the first session
FirstPressStart == nStarts = 0 /\ PressStart

NextTicks ==
  \/ FirstPressStart
  \/ \E k \in CallIds : PermResolve(k)
  \/ \E k \in CallIds : ModeResolve(k)
  \/ \E k \in CallIds : PrepareResolve(k)
  \/ \E k \in CallIds : StartAsyncResolve(k)
  \/ PressStop
  \/ \E h \in CallIds : UnloadResolve(h)
  \/ \E k \in CallIds : OverlapTick(k)
  \/ \E i \in 1..MaxOverlap : StatusResolve(i)

SpecTicks == Init /\ [][NextTicks]_vars

\* ---- the session controller with timers that fire at their due times

\* The event loop runs the timers in the order of their due times, and two
\* timers due together in the order they were created.  For call k the
\* timeout (created at line 51) is due RECORDING_TIME_LIMIT after the start
\* and firing n of the interval (created at line 57) n * ELAPSED_INTERVAL
\* after it, so the timeout runs once every firing due before it has run and
\* before a firing due with it.
TimedElapsedTick(k) ==
  /\ ticks[k] < MaxTimedTicks
  /\ DeadlineTimer(k) \in timers =>
        (ticks[k] + 1) * ELAPSED_INTERVAL < RECORDING_TIME_LIMIT
  /\ ElapsedFire(k)

TimedDeadlineFire(k) ==
  /\ ElapsedTimer(k) \in timers =>
        (ticks[k] + 1) * ELAPSED_INTERVAL >= RECORDING_TIME_LIMIT
  /\ DeadlineFire(k)

\* no pause press and no teardown: the sessions run to their deadlines
NextTimed ==
  \/ PressStart
  \/ \E k \in CallIds : PermResolve(k)
  \/ \E k \in CallIds : ModeResolve(k)
  \/ \E k \in CallIds : PrepareResolve(k)
  \/ \E k \in CallIds : StartAsyncResolve(k)
  \/ \E k \in CallIds : TimedDeadlineFire(k)
  \/ \E h \in CallIds : UnloadResolve(h)
  \/ \E k \in CallIds : SampleTick(k)
  \/ \E i \in 1..MaxQueries : StatusResolve(i)
  \/ \E k \in CallIds : TimedElapsedTick(k)

SpecTimed == Init /\ [][NextTimed]_vars

\* ---- formatTime (index.tsx:120-125): the string as its characters ----
Digit(d) == <<"0", "1", "2", "3", "4", "5", "6", "7", "8", "9">>[d + 1]

RECURSIVE NumToString(_)
NumToString(n) == IF n < 10 THEN <<Digit(n)>> ELSE NumToString(n \div 10) \o <<Digit(n % 10)>>

\* padStart(2, '0')
PadStart2(str) == IF Len(str) < 2 THEN <<"0">> \o str ELSE str

formatTime(ms) ==
  LET seconds == ms \div 1000
      minutes == seconds \div 60
      remainingSeconds == seconds % 60
  IN PadStart2(NumToString(minutes)) \o <<":">> \o PadStart2(NumToString(remainingSeconds))

\* ---- the window pipeline on its own: status updates and the clear of a
\* ---- new session, on a window that fills to its capacity

\* the metering tapes: tape `step` reads -65, -65 + step, ... (mod 60), so
\* its values run from below minDb to above maxDb
FeedSteps == {1, 7, 11}
FeedAt(step, n) == ((n * step) % 60) - 65

InitWindow ==
  /\ recording = 0
  /\ isRecording = FALSE
  /\ pitch = <<>>
  /\ pitchData = <<>>
  /\ elapsedTime = 0
  /\ intervalRef = 0
  /\ timerRef = NullTimer
  /\ mounted = TRUE
  /\ timers = {}
  /\ calls = [k \in CallIds |-> [pc |-> "none", cap |-> 0]]
  /\ nStarts = 0
  /\ handles = [k \in CallIds |-> "none"]
  /\ stops = [k \in CallIds |-> 0]
  /\ queries = <<>>
  /\ ticks = [k \in CallIds |-> 0]
  /\ unloads = [k \in CallIds |-> 0]
  /\ appended = <<>>
  /\ lastStatus = <<>>
  /\ feed \in FeedSteps
  /\ origins = <<>>
  /\ session = 0

\* onRecordingStatusUpdate(status) (index.tsx:47) with the next value of the
\* tape as the metering: capture running or not, metering present or not
WindowTick ==
  /\ Len(appended) < MaxAppends
  /\ \E rec \in BOOLEAN, met \in {NoMetering, <<FeedAt(feed, Len(appended))>>} :
        /\ ApplyStatus(Status(rec, met))
        /\ lastStatus' = <<Status(rec, met)>>
  /\ UNCHANGED <<recording, isRecording, elapsedTime, refs, mounted, timers,
                 calls, nStarts, handles, stops, queries, ticks, unloads, feed, origins, session>>

\* setPitchData([]) of a new session (index.tsx:41)
WindowClear ==
  /\ pitchData' = <<>>
  /\ appended' = <<>>
  /\ UNCHANGED <<recording, isRecording, pitch, elapsedTime, refs, mounted,
                 timers, calls, nStarts, handles, stops, queries, ticks,
                 unloads, lastStatus, feed, origins, session>>

NextWindow == WindowTick \/ WindowClear

SpecWindow == InitWindow /\ [][NextWindow]_vars

\* ---- the normalizer on its own: one status update for each metering value

DbInputs == (-60 - MaxDbBelow)..(-10 + MaxDbAbove)

InitNormalize ==
  /\ recording = 0
  /\ isRecording = FALSE
  /\ pitch = <<>>
  /\ pitchData = <<>>
  /\ elapsedTime = 0
  /\ intervalRef = 0
  /\ timerRef = NullTimer
  /\ mounted = TRUE
  /\ timers = {}
  /\ calls = [k \in CallIds |-> [pc |-> "none", cap |-> 0]]
  /\ nStarts = 0
  /\ handles = [k \in CallIds |-> "none"]
  /\ stops = [k \in CallIds |-> 0]
  /\ queries = <<>>
  /\ ticks = [k \in CallIds |-> 0]
  /\ unloads = [k \in CallIds |-> 0]
  /\ appended = <<>>
  /\ lastStatus = <<>>
  /\ feed \in DbInputs
  /\ origins = <<>>
  /\ session = 0

\* onRecordingStatusUpdate(status) (index.tsx:47) of a running capture whose
\* metering is the input: normalizePitch(metering) goes to setPitch and to
\* the window
NormalizeTick ==
  /\ appended = <<>>
  /\ ApplyStatus(Status(TRUE, <<feed>>))
  /\ lastStatus' = <<Status(TRUE, <<feed>>)>>
  /\ UNCHANGED <<recording, isRecording, elapsedTime, refs, mounted, timers,
                 calls, nStarts, handles, stops, queries, ticks, unloads, feed, origins, session>>

NextNormalize == NormalizeTick

SpecNormalize == InitNormalize /\ [][NextNormalize]_vars

\* ---- properties ----

\* C1: the window never holds more than MAX_DATA_POINTS entries, and after N
\* appends since it was last cleared its length is min(N, MAX_DATA_POINTS).
C1_WindowLength ==
  /\ Len(pitchData) <= MAX_DATA_POINTS
  /\ Len(pitchData) = Min(Len(appended), MAX_DATA_POINTS)

\* more samples were appended than the window holds
C1_Witness == Len(appended) > MAX_DATA_POINTS /\ Len(pitchData) = MAX_DATA_POINTS

LastN(s, n) == SubSeq(s, Len(s) - n + 1, Len(s))

\* C2: an append to a full window drops exactly the oldest entry and puts the
\* new sample last: the window is the last min(N, MAX_DATA_POINTS) appended
\* samples in arrival order, and after MAX_DATA_POINTS + 1 appends its first
\* entry is the 2nd sample appended.
C2_WindowFifo ==
  /\ pitchData = LastN(appended, Min(Len(appended), MAX_DATA_POINTS))
  /\ Len(appended) = MAX_DATA_POINTS + 1 => pitchData[1] = appended[2]

\* 601 appends were made, and the sample evicted differs from its successor
C2_Witness ==
  /\ Len(appended) = MAX_DATA_POINTS + 1
  /\ appended[1] # appended[2]
  /\ pitchData[MAX_DATA_POINTS] = appended[MAX_DATA_POINTS + 1]

\* a step that calls stopRecording: the pause press, a deadline, the cleanup
StopCall == PressStop \/ Teardown \/ \E k \in CallIds : DeadlineFire(k)

\* C3: once stopRecording has run, no sampling interval, elapsed-time
\* interval or deadline timeout of an earlier startRecording is scheduled.
C3_StopCancelsAll == [][StopCall => timers' = {}]_vars

\* a call of startRecording is in progress
Starting == \E k \in CallIds : Awaiting(k)

\* C4: stopRecording calls stopAndUnloadAsync on the open handle whoever
\* triggered it: the session is never Idle (isRecording false, no
\* startRecording in progress) with a started handle that was not released.
C4_IdleReleased ==
  (~isRecording /\ ~Starting) =>
     \A h \in CallIds : handles[h] = "started" => unloads[h] > 0

\* C5: the deadline of a started session runs stopRecording: when the stop
\* has finished, isRecording is false and no sampling or elapsed-time
\* interval is left to tick.
C5_DeadlineStops ==
  [][\A k \in CallIds :
       (DeadlineFire(k) /\ stops' = stops) =>
          /\ isRecording' = FALSE
          /\ \A t \in timers' : t.kind \notin {"sample", "elapsed"}]_vars

\* C6: after the cleanup of the screen has run, no timer is scheduled and no
\* capture handle is open without a stopAndUnloadAsync call made on it.
C6_TeardownClean ==
  ~mounted =>
     /\ timers = {}
     /\ \A h \in CallIds : handles[h] \in {"prepared", "started"} => unloads[h] > 0

\* C7: stopRecording called when no session is active, or again after a
\* stopRecording call (finished or still awaiting), is a no-op: no second
\* stopAndUnloadAsync on the handle, and isRecording, the window and the
\* elapsed time stay as they were.
C7_StopIdempotent ==
  [][StopCall =>
       /\ \A h \in CallIds : unloads[h] > 0 => unloads'[h] = unloads[h]
       /\ ~isRecording => UNCHANGED <<isRecording, pitchData, elapsedTime, unloads>>]_vars

\* call k of startRecording ends in its catch in this step
StartFails(k) == calls[k].pc # "failed" /\ calls'[k].pc = "failed"

C9_FailedStopIdle ==
  [][\A h \in CallIds :
       (UnloadResolve(h) /\ handles'[h] # "released") =>
          /\ isRecording' = FALSE
          /\ recording' = 0
          /\ timers' = {}
          /\ intervalRef' = 0 /\ timerRef' = NullTimer]_vars

\* C10: a sampling tick whose status reports isRecording = false leaves the
\* window and the last pitch value as they were.
C10_NotRecordingIgnored ==
  [][(WindowTick /\ ~lastStatus'[1].isRecording) => UNCHANGED <<pitch, pitchData>>]_vars

\* such a tick, carrying a metering value, was handled on a non-empty window
C10_Witness ==
  /\ lastStatus # <<>>
  /\ ~lastStatus[1].isRecording
  /\ lastStatus[1].metering # NoMetering
  /\ pitchData # <<>>

\* C11: a tick whose status reports isRecording = true without a numeric
\* metering is skipped (no sample, no placeholder), and the ticks go on: a
\* valid tick right after it is appended.
C11_MissingMeteringSkipped ==
  /\ [][(WindowTick /\ lastStatus'[1] = Status(TRUE, NoMetering)) =>
           UNCHANGED <<pitch, pitchData, appended>>]_vars
  /\ [][(/\ WindowTick
         /\ lastStatus = <<Status(TRUE, NoMetering)>>
         /\ lastStatus'[1].isRecording
         /\ lastStatus'[1].metering # NoMetering) =>
           /\ Len(appended') = Len(appended) + 1
           /\ pitchData'[Len(pitchData')] = normalizePitch(lastStatus'[1].metering[1])
           /\ pitch' = <<normalizePitch(lastStatus'[1].metering[1])>>]_vars

\* a tick without metering was skipped on a window that holds samples
C11_Witness == lastStatus = <<Status(TRUE, NoMetering)>> /\ pitchData # <<>>

Clamp(db) == Max(-60, Min(-10, db))

\* C12: normalizePitch clamps its input to [-60, -10] dB before scaling:
\* db <= -60 gives exactly 0, db >= -10 gives exactly 100, and any db gives
\* the result of db clamped to the range.
C12_NormalizeClamps ==
  pitch # <<>> =>
     /\ feed <= -60 => pitch[1] = 0
     /\ feed >= -10 => pitch[1] = 100 * Hundredths
     /\ pitch[1] = normalizePitch(Clamp(feed))
     /\ pitchData = pitch

\* a metering above the range was normalized
C12_Witness == pitch # <<>> /\ feed > -10 /\ pitchData = <<100 * Hundredths>>

\* C13: on [-60, -10] normalizePitch is non-decreasing and follows the
\* square-root curve on the linear rescaling: scaled^2 = linear * 100 (to
\* the hundredth), so that -35 dB gives 70.71.
C13_NormalizeMonotone ==
  (pitch # <<>> /\ feed \in -60..-10) =>
     LET v == pitch[1]
         linear == (feed + 60) * 2
     IN /\ \A db \in -60..feed : normalizePitch(db) <= v
        /\ \A db \in feed..-10 : v <= normalizePitch(db)
        /\ v * v <= linear * 100 * Hundredths * Hundredths
        /\ (v + 1) * (v + 1) > linear * 100 * Hundredths * Hundredths
        /\ feed = -35 => v = 7071

\* -35 dB was normalized
C13_Witness == feed = -35 /\ pitch = <<7071>>

\* C14: every entry of the sample window is a normalized value between 0
\* and 100 inclusive.
C14_WindowInRange ==
  \A i \in 1..Len(pitchData) : 0 <= pitchData[i] /\ pitchData[i] <= 100 * Hundredths

\* a full window that holds both ends of the range and a value in between
C14_Witness ==
  /\ Len(pitchData) = MAX_DATA_POINTS
  /\ \E i, j, l \in 1..Len(pitchData) :
        /\ pitchData[i] = 0
        /\ pitchData[j] = 100 * Hundredths
        /\ 0 < pitchData[l] /\ pitchData[l] < 100 * Hundredths

\* C15: in a session that runs to its deadline the elapsed-time display caps
\* at 01:00: the elapsedTime shown when the deadline stops the session is
\* RECORDING_TIME_LIMIT (formatTime gives "01:00") and no larger value is
\* ever displayed.
C15_DisplayCaps ==
  /\ [][\A k \in CallIds : TimedDeadlineFire(k) =>
           /\ elapsedTime' = RECORDING_TIME_LIMIT
           /\ formatTime(elapsedTime') = <<"0", "1", ":", "0", "0">>]_vars
  /\ [](elapsedTime <= RECORDING_TIME_LIMIT)

\* C16: at most one recording session is active at any time: at most one
\* sampling interval, one elapsed-time interval, one deadline timeout and
\* one open capture handle.
C16_OneSession ==
  /\ \A kind \in {"sample", "elapsed", "deadline"} :
        Cardinality({t \in timers : t.kind = kind}) <= 1
  /\ Cardinality({h \in CallIds : handles[h] \in {"prepared", "started"}}) <= 1

\* C19: once stopRecording has completed and the state is Idle, the window
\* and the last pitch value are not modified until the next startRecording
\* has started a session.
C19_IdleWindowFrozen ==
  [][((\E k \in CallIds : calls[k].pc = "done") /\ ~isRecording /\ ~isRecording') =>
        UNCHANGED <<pitch, pitchData>>]_vars

\* C20: whenever isRecording is true (the button of the mounted screen shows
\* pause), the handle reference held in state is defined and is the handle
\* whose capture is running.
C20_RecordingHasHandle ==
  (mounted /\ isRecording) => (recording # 0 /\ handles[recording] = "started")

\* call k of startRecording starts its session in this step (lines 40-61)
SessionStarts(k) == calls[k].pc = "startAsync" /\ calls'[k].pc = "done"

\* C17: the window is emptied and the elapsed time reset to zero at the
\* start of each new session, and while a session is Recording every entry
\* of the window was produced by a sampling tick of that same session.
C17_NoSampleAcrossSessions ==
  /\ [][\A k \in CallIds : SessionStarts(k) => (pitchData' = <<>> /\ elapsedTime' = 0)]_vars
  /\ [](isRecording => \A n \in 1..Len(origins) : origins[n] = session)

\* C18: sampling ticks never overlap: the tick that has queried the backend
\* status has appended its sample or has been ignored before the next
\* sampling tick fires, so at most one query is in flight and the queries
\* are answered, and their samples appended, in the order the ticks fired.
C18_TicksDoNotOverlap ==
  /\ [](Len(queries) <= 1)
  /\ [][Len(queries') < Len(queries) => queries' = Tail(queries)]_vars

====
